---- MODULE Spec2Model ----
(***************************************************************************)
(* Model of app.py, the "Reformat Instructor Report" Streamlit page: the   *)
(* term codec (parse_term_code, compute_section_from_title_suffix,         *)
(* format_term, derive_filename), the Course_Code derivation, and the run  *)
(* of main() from the upload widget to the download button.                *)
(*                                                                         *)
(* A text (Python str) is a sequence of one-character strings.  A Python   *)
(* call that can raise returns a record [exc, val]: exc = "none" and the   *)
(* value, or the name of the exception raised.                             *)
(***************************************************************************)
EXTENDS Integers, Sequences, FiniteSets, TLC

VARIABLES
    pc,            \* position of main() in the script run
    instr_file,    \* what st.file_uploader returned
    df,            \* the table load_excel returned
    messages,      \* the elements main() has put on the page, in order
    out,           \* the table build_output_dataframe returned
    filename,      \* file_name handed to st.download_button
    cpc,           \* position of the codec call sequence
    project,       \* a Project cell
    other_project, \* a second Project cell, encoded with the same title
    course_title,  \* a Course Title cell
    term,          \* format_term(project, course_title)
    other_term,    \* format_term(other_project, course_title)
    section,       \* compute_section_from_title_suffix(course_title)
    course_code,   \* derive_course_code_from_title(course_title)
    term_filename  \* derive_filename(term)

main_vars == <<pc, instr_file, df, messages, out, filename>>
codec_vars == <<cpc, project, other_project, course_title, term, other_term,
                section, course_code, term_filename>>
vars == <<pc, instr_file, df, messages, out, filename, cpc, project,
          other_project, course_title, term, other_term, section,
          course_code, term_filename>>

None == [exc |-> "none", val |-> <<"<", "unset", ">">>]
Returned(v) == [exc |-> "none", val |-> v]
Raised(e) == [exc |-> e, val |-> << >>]

(***************************************************************************)
(* Python str and int built-ins, as the helpers use them.                  *)
(***************************************************************************)
Whitespace == {" ", "\t"}
LowerLetters == <<"a", "b", "c", "d", "e", "f", "g", "h", "i", "j", "k", "l", "m", "n", "o", "p", "q", "r", "s", "t", "u", "v", "w", "x", "y", "z">>
UpperLetters == <<"A", "B", "C", "D", "E", "F", "G", "H", "I", "J", "K", "L", "M", "N", "O", "P", "Q", "R", "S", "T", "U", "V", "W", "X", "Y", "Z">>
DigitChars == <<"0", "1", "2", "3", "4", "5", "6", "7", "8", "9">>

IndexIn(c, s) == CHOOSE i \in 1..Len(s) : s[i] = c
Max(a, b) == IF a >= b THEN a ELSE b

\* str.upper() of one character: the full case mapping, under which the
\* German sharp s becomes the two letters SS.
UpperChar(c) ==
    IF \E i \in 1..26 : LowerLetters[i] = c THEN <<UpperLetters[IndexIn(c, LowerLetters)]>>
    ELSE IF c = "ß" THEN <<"S", "S">>
    ELSE <<c>>

LowerChar(c) ==
    IF \E i \in 1..26 : UpperLetters[i] = c THEN <<LowerLetters[IndexIn(c, UpperLetters)]>>
    ELSE <<c>>

RECURSIVE str_upper(_)
str_upper(s) == IF s = << >> THEN << >> ELSE UpperChar(Head(s)) \o str_upper(Tail(s))

RECURSIVE str_lower(_)
str_lower(s) == IF s = << >> THEN << >> ELSE LowerChar(Head(s)) \o str_lower(Tail(s))

\* s[:n]
Prefix(s, n) == SubSeq(s, 1, IF Len(s) < n THEN Len(s) ELSE n)

RECURSIVE str_lstrip(_)
str_lstrip(s) ==
    IF s = << >> THEN << >>
    ELSE IF Head(s) \in Whitespace THEN str_lstrip(Tail(s)) ELSE s

RECURSIVE str_rstrip(_)
str_rstrip(s) ==
    IF s = << >> THEN << >>
    ELSE IF s[Len(s)] \in Whitespace THEN str_rstrip(SubSeq(s, 1, Len(s) - 1)) ELSE s

str_strip(s) == str_rstrip(str_lstrip(s))

\* length of the run of non-whitespace characters s starts with
RECURSIVE TokenLen(_)
TokenLen(s) ==
    IF s = << >> \/ Head(s) \in Whitespace THEN 0 ELSE 1 + TokenLen(Tail(s))

\* s.split(): the maximal runs of non-whitespace characters
RECURSIVE str_split(_)
str_split(s) ==
    LET t == str_lstrip(s)
        n == TokenLen(t)
    IN  IF t = << >> THEN << >>
        ELSE <<SubSeq(t, 1, n)>> \o str_split(SubSeq(t, n + 1, Len(t)))

\* s.split(maxsplit=1): the first token, then the rest of the text with its
\* leading whitespace dropped, when there is any
str_split_maxsplit1(s) ==
    LET t == str_lstrip(s)
        n == TokenLen(t)
        rest == str_lstrip(SubSeq(t, n + 1, Len(t)))
    IN  IF t = << >> THEN << >>
        ELSE IF rest = << >> THEN <<SubSeq(t, 1, n)>>
        ELSE <<SubSeq(t, 1, n), rest>>

\* length of the run of characters other than sep that s starts with
RECURSIVE FieldLen(_, _)
FieldLen(s, sep) ==
    IF s = << >> \/ Head(s) = sep THEN 0 ELSE 1 + FieldLen(Tail(s), sep)

\* s.split(sep): every field, empty ones included
RECURSIVE str_split_sep(_, _)
str_split_sep(s, sep) ==
    LET n == FieldLen(s, sep)
    IN  IF n = Len(s) THEN <<s>>
        ELSE <<SubSeq(s, 1, n)>> \o str_split_sep(SubSeq(s, n + 2, Len(s)), sep)

\* s.split(sep, 1)[0]
str_split_sep_first(s, sep) == SubSeq(s, 1, FieldLen(s, sep))

IsDigits(s) == s # << >> /\ \A i \in 1..Len(s) : \E d \in 1..10 : DigitChars[d] = s[i]

RECURSIVE DigitsValue(_)
DigitsValue(s) ==
    IF s = << >> THEN 0
    ELSE 10 * DigitsValue(SubSeq(s, 1, Len(s) - 1)) + (IndexIn(s[Len(s)], DigitChars) - 1)

\* int(s) for a text without whitespace: an optional sign and decimal
\* digits, or ValueError
int_parse(s) ==
    IF IsDigits(s) THEN Returned(DigitsValue(s))
    ELSE IF s # << >> /\ Head(s) = "+" /\ IsDigits(Tail(s)) THEN Returned(DigitsValue(Tail(s)))
    ELSE IF s # << >> /\ Head(s) = "-" /\ IsDigits(Tail(s)) THEN Returned(0 - DigitsValue(Tail(s)))
    ELSE Raised("ValueError")

RECURSIVE DecimalDigits(_)
DecimalDigits(n) ==
    IF n < 10 THEN <<DigitChars[n + 1]>>
    ELSE DecimalDigits(n \div 10) \o <<DigitChars[(n % 10) + 1]>>

\* f"{n:02d}"
format_02d(n) ==
    IF n < 0 THEN <<"-">> \o DecimalDigits(0 - n)
    ELSE IF n < 10 THEN <<"0">> \o DecimalDigits(n)
    ELSE DecimalDigits(n)

(***************************************************************************)
(* Helpers of app.py                                                       *)
(***************************************************************************)
SEASON_MAP == (<<"s", "p", "r", "i", "n", "g">> :> <<"S", "P">>) @@ (<<"s", "u", "m", "m", "e", "r">> :> <<"S", "U">>) @@ (<<"f", "a", "l", "l">> :> <<"F", "A">>)
ROMAN_TO_NUM == (<<"I">> :> <<"1">>) @@ (<<"I", "I">> :> <<"2">>)

\* dict.get(key, default)
DictGet(d, key, default) == IF key \in DOMAIN d THEN d[key] ELSE default

derive_course_code_from_title(title) ==
    LET s == str_strip(title)
    IN  IF s = << >> THEN << >>
        ELSE LET first_token == str_split_maxsplit1(s)[1]
                 head == str_split_sep_first(first_token, "_")
             IN  str_upper(Prefix(head, 6))

safe_course_name_from_title(title) ==
    LET s == str_strip(title)
        parts == str_split_maxsplit1(s)
    IN  IF s = << >> THEN << >>
        ELSE IF Len(parts) = 2 THEN str_strip(parts[2]) ELSE << >>

\* parse_term_code taking the first four of four or more tokens
parse_term_code_at_least_four(p) ==
    LET parts == str_split(p)
    IN  IF Len(parts) >= 4
        THEN LET season == parts[2]
                 season_code == DictGet(SEASON_MAP, str_lower(str_strip(season)),
                                        str_upper(Prefix(season, 2)))
                 term_num == DictGet(ROMAN_TO_NUM, str_upper(parts[4]), <<"1">>)
             IN  <<str_strip(parts[1]), season_code \o term_num>>
        ELSE <<p, << >> >>

\* returns <<year, code>>; code is empty when the text is not four tokens
parse_term_code(p) ==
    LET parts == str_split(p)
    IN  IF Len(parts) = 4
        THEN LET year == str_strip(parts[1])
                 season == parts[2]
                 roman == parts[4]
                 season_code == DictGet(SEASON_MAP, str_lower(str_strip(season)),
                                        str_upper(Prefix(season, 2)))
                 term_num == DictGet(ROMAN_TO_NUM, str_upper(roman), <<"1">>)
             IN  <<year, season_code \o term_num>>
        ELSE <<p, << >> >>

\* compute_section_from_title_suffix without the floor at 1
compute_section_without_floor(title) ==
    LET tokens == str_split_maxsplit1(title)
    IN  IF tokens = << >> THEN Raised("IndexError")
        ELSE LET fields == str_split_sep(tokens[1], "_")
                 parsed == int_parse(fields[Len(fields)])
                 section_num == IF parsed.exc = "none"
                                THEN (parsed.val % 100) - 90 + 1
                                ELSE 1
             IN  Returned(format_02d(section_num))

compute_section_from_title_suffix(title) ==
    LET tokens == str_split_maxsplit1(title)
    IN  IF tokens = << >> THEN Raised("IndexError")
        ELSE LET token == tokens[1]
                 fields == str_split_sep(token, "_")
                 suffix == fields[Len(fields)]
                 parsed == int_parse(suffix)
                 section_num == IF parsed.exc = "none"
                                THEN Max((parsed.val % 100) - 90 + 1, 1)
                                ELSE 1
             IN  Returned(format_02d(section_num))

format_term(p, title) ==
    LET yc == parse_term_code(p)
        year == yc[1]
        code == yc[2]
    IN  IF code # << >>
        THEN LET sec == compute_section_from_title_suffix(title)
             IN  IF sec.exc # "none" THEN sec
                 ELSE Returned(year \o <<"_">> \o sec.val \o <<"_">> \o code)
        ELSE Returned(p)

FILENAME_SUFFIX == <<"_", "S", "t", "u", "d", "e", "n", "t", "_", "C", "o", "m", "m", "e", "n", "t", "s", "_", "W", "a", "t", "e", "r", "m", "a", "r", "k", ".", "c", "s", "v">>

derive_filename(term_value) ==
    LET parts == str_split_sep(term_value, "_")
        filename_term == IF Len(parts) = 3
                         THEN parts[1] \o <<"_">> \o parts[3]
                         ELSE term_value
    IN  filename_term \o FILENAME_SUFFIX

(***************************************************************************)
(* The cells the codec is applied to.                                      *)
(***************************************************************************)
MaxSuffix == 200

Years == {<<"2", "0", "2", "5">>, <<"2", "0", "2", "4">>}
SeasonNames == {<<"S", "p", "r", "i", "n", "g">>, <<"S", "u", "m", "m", "e", "r">>, <<"F", "a", "l", "l">>, <<"W", "i", "n", "t", "e", "r">>}
RomanIndices == {<<"I">>, <<"I", "I">>, <<"I", "I", "I">>, <<"I", "V">>}

\* '<year> <season> Term <roman>'
WellFormedProject(y, s, r) == y \o <<" ">> \o s \o <<" ", "T", "e", "r", "m", " ">> \o r

WellFormedProjects ==
    {WellFormedProject(y, s, r) : y \in Years, s \in SeasonNames, r \in RomanIndices}

OtherProjects ==
    { <<"2", "0", "2", "5", " ", "S", "u", "m", "m", "e", "r", " ", "S", "e", "s", "s", "i", "o", "n", " ", "I">>, <<"2", "0", "2", "5", " ", "A", "u", "t", "u", "m", "n", " ", "T", "e", "r", "m", " ", "I">>, <<"2", "0", "2", "5", " ", "s", "u", "m", "m", "e", "r", " ", "t", "e", "r", "m", " ", "i", "i">>,
      <<"S", "u", "m", "m", "e", "r", " ", "2", "0", "2", "5">>, <<"2", "0", "2", "5", " ", "S", "u", "m", "m", "e", "r", " ", "T", "e", "r", "m">>, <<"2", "0", "2", "5", " ", "S", "u", "m", "m", "e", "r", " ", "T", "e", "r", "m", " ", "I", " ", "O", "n", "l", "i", "n", "e">>,
      << >>, <<"2", "0", "2", "5", "_", "S", "u", "m", "m", "e", "r", "_", "I">>, <<"2", "0", "_", "2", "5", " ", "S", "u", "m", "m", "e", "r", " ", "T", "e", "r", "m", " ", "I">>, <<" ", "2", "0", "2", "5", " ", " ", "S", "u", "m", "m", "e", "r", "\t", "T", "e", "r", "m", " ", "I", " ">>,
      <<"2", "0", "2", "5", " ", "S", "u", "m", "m", "e", "r", " ", "T", "e", "r", "m", " ", "V">>, <<"2", "0", "2", "5", "_", "S", "U", "1">> }

Projects == WellFormedProjects \cup OtherProjects

\* a title whose first token ends in the decimal number n after an underscore
TitleWithSuffix(n) == <<"C", "U", "L", "2", "1", "0", "_">> \o DecimalDigits(n) \o <<" ", "I", "n", "t", "r", "o", " ", "t", "o", " ", "B", "a", "k", "i", "n", "g">>

NumericSuffixes == (185..MaxSuffix) \cup {5, 91, 1000}

\* titles whose first token does not end in an integer
NonIntegerTitles ==
    { <<"C", "U", "L", "2", "1", "0", "_", "1", "9", "A", " ", "I", "n", "t", "r", "o">>, <<"C", "U", "L", "2", "1", "0", " ", "I", "n", "t", "r", "o", " ", "t", "o", " ", "B", "a", "k", "i", "n", "g">>, <<"C", "U", "L", "2", "1", "0", "_", " ", "I", "n", "t", "r", "o">>,
      <<"C", "U", "L", "_", "2", "1", "0", "_", "x", "9", " ", "I", "n", "t", "r", "o">> }

BlankTitles == { << >>, <<" ", " ">> }

Titles ==
    {TitleWithSuffix(n) : n \in NumericSuffixes}
    \cup NonIntegerTitles \cup BlankTitles
    \cup { <<"C", "U", "L", "2", "1", "0", "_", "-", "5", " ", "I", "n", "t", "r", "o">>, <<"C", "U", "L", "2", "1", "0", "_", "+", "7", " ", "I", "n", "t", "r", "o">>, <<"1", "9", "1", " ", "I", "n", "t", "r", "o">>, <<"C", "U", "L", "2", "1", "0", "_", "1", "9", "1">>,
           <<"s", "t", "r", "a", "ß", "e", "_", "1", "9", "1", " ", "G", "r", "u", "n", "d", "l", "a", "g", "e", "n">>, <<"a", "c", "c", "_", "2", "1", "0", "_", "1", "9", "1", " ", "I", "n", "t", "r", "o">>,
           <<" ", " ", "c", "u", "l", "2", "1", "0", "_", "1", "9", "0", " ", " ", "I", "n", "t", "r", "o", " ", " ", "t", "o", " ", " ", "X", " ">> }

(***************************************************************************)
(* The codec applied to one row's cells: format_term as                    *)
(* build_output_dataframe calls it, then the section and the course code   *)
(* of the same title, then derive_filename on the Term as main() calls it. *)
(***************************************************************************)
MainIdle ==
    /\ pc = "idle"
    /\ instr_file = [kind |-> "none"]
    /\ df = [columns |-> << >>, rows |-> << >>]
    /\ messages = << >>
    /\ out = << >>
    /\ filename = None

CodecInit ==
    /\ cpc = "input"
    /\ project \in Projects
    /\ other_project \in WellFormedProjects
    /\ course_title \in Titles
    /\ term = None
    /\ other_term = None
    /\ section = None
    /\ course_code = None
    /\ term_filename = None
    /\ MainIdle

CallFormatTerm ==
    /\ cpc = "input"
    /\ term' = format_term(project, course_title)
    /\ other_term' = format_term(other_project, course_title)
    /\ cpc' = "encoded"
    /\ UNCHANGED <<project, other_project, course_title, section, course_code,
                   term_filename>>
    /\ UNCHANGED main_vars

CallComputeSection ==
    /\ cpc = "encoded"
    /\ section' = compute_section_from_title_suffix(course_title)
    /\ cpc' = "sectioned"
    /\ UNCHANGED <<project, other_project, course_title, term, other_term,
                   course_code, term_filename>>
    /\ UNCHANGED main_vars

CallDeriveCourseCode ==
    /\ cpc = "sectioned"
    /\ course_code' = Returned(derive_course_code_from_title(course_title))
    /\ cpc' = "coded"
    /\ UNCHANGED <<project, other_project, course_title, term, other_term,
                   section, term_filename>>
    /\ UNCHANGED main_vars

CallDeriveFilename ==
    /\ cpc = "coded"
    /\ term.exc = "none"
    /\ term_filename' = Returned(derive_filename(term.val))
    /\ cpc' = "done"
    /\ UNCHANGED <<project, other_project, course_title, term, other_term,
                   section, course_code>>
    /\ UNCHANGED main_vars

CodecNext ==
    \/ CallFormatTerm
    \/ CallComputeSection
    \/ CallDeriveCourseCode
    \/ CallDeriveFilename

CodecSpec == CodecInit /\ [][CodecNext]_vars

(***************************************************************************)
(* Properties of the codec, checked under CodecSpec                        *)
(***************************************************************************)
\* the codes the data model gives the four seasons and the four indices
DescriptorSeasonCode ==
    (<<"S", "p", "r", "i", "n", "g">> :> <<"S", "P">>) @@ (<<"S", "u", "m", "m", "e", "r">> :> <<"S", "U">>) @@ (<<"F", "a", "l", "l">> :> <<"F", "A">>)
    @@ (<<"W", "i", "n", "t", "e", "r">> :> <<"W", "I">>)
DescriptorTermNumber ==
    (<<"I">> :> <<"1">>) @@ (<<"I", "I">> :> <<"2">>) @@ (<<"I", "I", "I">> :> <<"3">>) @@ (<<"I", "V">> :> <<"4">>)

\* a positive integer below 100 written with two digits
TwoDigits(k) == <<DigitChars[(k \div 10) + 1], DigitChars[(k % 10) + 1]>>
TwoDigitSections == {TwoDigits(k) : k \in 1..99}

\* C1: for every Project text '<year> <season> Term <roman>' and every course
\* title, format_term returns '<year>_<section>_<seasonCode><termNumber>' with
\* SP/SU/FA/WI for the season and 1/2/3/4 for I/II/III/IV.  Stated of the
\* calls that return; C3 is about those that do not.
C1_FormatTermEncodesDescriptor ==
    (cpc # "input" /\ term.exc = "none") =>
        \A y \in Years, s \in SeasonNames, r \in RomanIndices :
            project = WellFormedProject(y, s, r) =>
                \E sec \in TwoDigitSections :
                    term.val = y \o <<"_">> \o sec \o <<"_">>
                               \o DescriptorSeasonCode[s] \o DescriptorTermNumber[r]

\* C2: with the section fixed, two different well-formed term descriptors
\* never produce the same Term key.
C2_DistinctDescriptorsDistinctKeys ==
    ( /\ cpc # "input"
      /\ project \in WellFormedProjects
      /\ project # other_project
      /\ term.exc = "none"
      /\ other_term.exc = "none" ) => term.val # other_term.val

\* C3: format_term never raises, whatever the Project and the Course Title
\* are (an empty or whitespace-only title included): it returns a string.
C3_FormatTermNeverRaises ==
    cpc # "input" => term.exc = "none"

\* the shape (year, season, the literal 'Term', roman index)
HasTermShape(p) ==
    /\ Len(str_split(p)) = 4
    /\ str_split(p)[3] = <<"T", "e", "r", "m">>

\* C4 as stated: a Project text that is not four tokens of the shape (year,
\* season, 'Term', roman index) is what format_term returns, unchanged, and
\* no composite key is built from it.
C4_OnlyTermShapeDecodes ==
    (cpc # "input" /\ ~HasTermShape(project) /\ term.exc = "none") =>
        term.val = project

\* C4 as amended: a Project text that does not split on whitespace into
\* exactly 4 tokens comes back unchanged from format_term, and a composite
\* key is built only from, and from every, text of exactly 4 tokens, whatever
\* the third token is.
C4_DecodesExactlyFourTokens ==
    cpc # "input" =>
        /\ Len(str_split(project)) # 4 => term = Returned(project)
        /\ (Len(str_split(project)) = 4 /\ term.exc = "none") =>
              /\ term.val # project
              /\ Len(term.val) > Len(str_split(project)[1])
              /\ SubSeq(term.val, 1, Len(str_split(project)[1]) + 1)
                    = str_split(project)[1] \o <<"_">>

C4_Witness ==
    /\ cpc = "encoded"
    /\ project = <<"2", "0", "2", "5", " ", "S", "u", "m", "m", "e", "r", " ", "S", "e", "s", "s", "i", "o", "n", " ", "I">>
    /\ course_title = TitleWithSuffix(191)
    /\ term = Returned(<<"2", "0", "2", "5", "_", "0", "2", "_", "S", "U", "1">>)

\* C5: for a title whose first token ends in the integer n after the last
\* underscore the section is max((n mod 100) - 90 + 1, 1) written with two
\* digits (191 gives '02'); for a non-integer suffix it is '01'; every section
\* returned is two digits denoting a positive integer.
C5_SectionByModuloRule ==
    cpc \in {"sectioned", "coded", "done"} =>
        /\ \A n \in NumericSuffixes :
              course_title = TitleWithSuffix(n) =>
                  section = Returned(TwoDigits(Max((n % 100) - 90 + 1, 1)))
        /\ course_title = TitleWithSuffix(191) => section = Returned(<<"0", "2">>)
        /\ course_title \in NonIntegerTitles => section = Returned(<<"0", "1">>)
        /\ section.exc = "none" => section.val \in TwoDigitSections

C5_Witness ==
    /\ cpc = "sectioned"
    /\ course_title = TitleWithSuffix(191)
    /\ section = Returned(<<"0", "2">>)

\* C9: the filename of a Term that format_term decoded is
\* '<year>_<code>_Student_Comments_Watermark.csv' (section dropped), and the
\* filename of a fallback Term is the Project text as-is followed by
\* '_Student_Comments_Watermark.csv'.
C9_FilenameTellsDecodedFromFallback ==
    cpc = "done" =>
        LET yc == parse_term_code(project)
        IN  IF yc[2] # << >>
            THEN term_filename = Returned(yc[1] \o <<"_">> \o yc[2] \o FILENAME_SUFFIX)
            ELSE term_filename = Returned(project \o FILENAME_SUFFIX)

(***************************************************************************)
(* Tables.  A header is a column name with or without whitespace around    *)
(* it; a row maps the names of the table's columns to cells.               *)
(***************************************************************************)
REQUIRED_BASE_COLS ==
    <<"Instructor Firstname", "Instructor Lastname", "Project", "Course Title",
      "QuestionKey", "Comments">>
OPTIONAL_COLS == <<"Course Code">>

Range(f) == {f[i] : i \in DOMAIN f}

\* the elements of the list seq that are in the set S, in the list's order
RECURSIVE Keep(_, _)
Keep(seq, S) ==
    IF seq = << >> THEN << >>
    ELSE (IF Head(seq) \in S THEN <<Head(seq)>> ELSE << >>) \o Keep(Tail(seq), S)
Header(name) == [name |-> name, padded |-> FALSE]
ColumnNames(d) == {d.columns[i].name : i \in 1..Len(d.columns)}
EmptyDataFrame == [columns |-> << >>, rows |-> << >>]

\* df.columns.str.strip()
normalize_columns(d) ==
    [d EXCEPT !.columns = [i \in 1..Len(d.columns) |-> Header(d.columns[i].name)]]

\* c in df.columns
HasColumn(d, c) == \E i \in 1..Len(d.columns) : d.columns[i] = Header(c)

\* df.empty
df_empty(d) == Len(d.columns) = 0 \/ Len(d.rows) = 0

\* pd.read_excel(uploader)
read_excel(uploader) ==
    IF uploader.kind = "table"
    THEN Returned([columns |-> uploader.columns, rows |-> uploader.rows])
    ELSE Raised("Exception")

Element(kind, data) == [kind |-> kind, data |-> data]

\* load_excel without the try/except around the read
load_excel_propagating(uploader) ==
    IF uploader.kind = "none"
    THEN [exc |-> "none", val |-> EmptyDataFrame, shown |-> << >>]
    ELSE LET read == read_excel(uploader)
         IN  IF read.exc = "none"
             THEN [exc |-> "none", val |-> normalize_columns(read.val), shown |-> << >>]
             ELSE [exc |-> read.exc, val |-> EmptyDataFrame, shown |-> << >>]

\* returns the table and what it put on the page; exc is what it lets escape
load_excel(uploader) ==
    IF uploader.kind = "none"
    THEN [exc |-> "none", val |-> EmptyDataFrame, shown |-> << >>]
    ELSE LET read == read_excel(uploader)
         IN  IF read.exc = "none"
             THEN [exc |-> "none", val |-> normalize_columns(read.val), shown |-> << >>]
             ELSE [exc |-> "none", val |-> EmptyDataFrame,
                   shown |-> <<Element("error_read", << >>)>>]

\* the column check stopping at the first missing column
missing_columns_first_only(d) ==
    Prefix(Keep(REQUIRED_BASE_COLS, {c \in Range(REQUIRED_BASE_COLS) : ~HasColumn(d, c)}), 1)

\* [c for c in REQUIRED_BASE_COLS if c not in df.columns]
missing_columns(d) == Keep(REQUIRED_BASE_COLS, {c \in Range(REQUIRED_BASE_COLS) : ~HasColumn(d, c)})

\* one row of the output table, or the exception format_term raised
output_row(d, r) ==
    LET t == format_term(r["Project"], r["Course Title"])
        code == IF HasColumn(d, "Course Code")
                THEN str_upper(Prefix(str_strip(r["Course Code"]), 6))
                ELSE derive_course_code_from_title(r["Course Title"])
    IN  IF t.exc # "none" THEN t
        ELSE Returned([Term |-> t.val,
                       Course_Code |-> code,
                       Course_Name |-> safe_course_name_from_title(r["Course Title"]),
                       Inst_FName |-> str_strip(r["Instructor Firstname"]),
                       Inst_LName |-> str_strip(r["Instructor Lastname"]),
                       Question |-> r["QuestionKey"],
                       Response |-> r["Comments"]])

\* the output rows of the rows given, in their order, or the exception the
\* first row that raises ends the apply with
RECURSIVE output_rows(_, _)
output_rows(d, rows) ==
    IF rows = << >> THEN Returned(<< >>)
    ELSE LET first == output_row(d, Head(rows))
             rest == output_rows(d, Tail(rows))
         IN  IF first.exc # "none" THEN first
             ELSE IF rest.exc # "none" THEN rest
             ELSE Returned(<<first.val>> \o rest.val)

\* build_output_dataframe keeping only the rows whose Course_Name is not empty
build_output_dataframe_dropping(d) ==
    LET res == output_rows(d, d.rows)
    IN  IF res.exc # "none" THEN res
        ELSE Returned(SelectSeq(res.val, LAMBDA r : r.Course_Name # << >>))

build_output_dataframe(d) == output_rows(d, d.rows)

(***************************************************************************)
(* The Instructor Reports a user may upload                                *)
(***************************************************************************)
MaxRows == 2

FILE_COLUMN_ORDER ==
    <<"Project", "Course Code", "Course Title", "Instructor Firstname",
      "Instructor Lastname", "QuestionKey", "Comments">>

Cells(p, code, title, first, last, q, comments) ==
    ("Project" :> p) @@ ("Course Code" :> code) @@ ("Course Title" :> title)
    @@ ("Instructor Firstname" :> first) @@ ("Instructor Lastname" :> last)
    @@ ("QuestionKey" :> q) @@ ("Comments" :> comments)

ReportRows ==
    { Cells(<<"2", "0", "2", "5", " ", "S", "u", "m", "m", "e", "r", " ", "T", "e", "r", "m", " ", "I">>, <<" ", "c", "u", "l", "2", "1", "0", "x", " ">>, <<"C", "U", "L", "2", "1", "0", "_", "1", "9", "1", " ", "I", "n", "t", "r", "o", " ", "t", "o", " ", "B", "a", "k", "i", "n", "g">>,
            <<" ", "A", "n", "n", " ">>, <<"L", "e", "e">>, <<"Q", "1">>, <<"G", "r", "e", "a", "t">>),
      Cells(<<"2", "0", "2", "5", " ", "F", "a", "l", "l", " ", "T", "e", "r", "m", " ", "I", "I", "I">>, <<"A", "C", "C", "2", "1", "0">>, <<"a", "c", "c", "2", "1", "0", "_", "1", "9", "0", " ", " ", "A", "c", "c", "o", "u", "n", "t", "i", "n", "g", " ", "I", " ">>,
            <<"B", "o", "b">>, <<" ", "R", "a", "y">>, <<"Q", "2">>, <<"G", "o", "o", "d">>),
      Cells(<<"S", "u", "m", "m", "e", "r", " ", "2", "0", "2", "5">>, <<"a", "b", "c", "d", "e", "ß">>, <<"s", "t", "r", "a", "ß", "e", "_", "1", "9", "1", " ", "G", "r", "u", "n", "d", "l", "a", "g", "e", "n">>,
            <<"E", "v", "a">>, <<"R", "o", "t", "h">>, <<"Q", "1">>, <<"G", "u", "t">>),
      Cells(<<"2", "0", "2", "5", " ", "S", "u", "m", "m", "e", "r", " ", "T", "e", "r", "m", " ", "I">>, <<" ">>, <<" ", " ">>,
            <<"A", "n", "n">>, <<"L", "e", "e">>, <<"Q", "3">>, <<"N", "o", " ", "t", "i", "t", "l", "e">>),
      Cells(<<"2", "0", "2", "5", "_", "S", "u", "m", "m", "e", "r", "_", "I">>, <<"b", "i", "o", "1">>, <<"B", "I", "O", "1", "0", "1">>,
            <<"C", "y">>, <<"O", "r", "r">>, <<"Q", "2">>, <<"F", "i", "n", "e">>) }

RowSeqs == UNION {[1..n -> ReportRows] : n \in 0..MaxRows}

\* which headers come with whitespace around them
PaddedChoices == {{}, {"Project"}, {"Course Code", "Comments"}}

Table(S, padded, rows) ==
    LET names == Keep(FILE_COLUMN_ORDER, S)
    IN  [kind |-> "table",
         columns |-> [i \in 1..Len(names) |->
                         [name |-> names[i], padded |-> names[i] \in padded]],
         rows |-> [i \in 1..Len(rows) |-> [c \in S |-> rows[i][c]]]]

Uploads ==
    {[kind |-> "none"], [kind |-> "unreadable"]}
    \cup {Table(S, P \cap S, IF S = {} THEN << >> ELSE rows) :
              S \in SUBSET Range(FILE_COLUMN_ORDER), P \in PaddedChoices, rows \in RowSeqs}

(***************************************************************************)
(* One run of main()                                                       *)
(***************************************************************************)
CodecIdle ==
    /\ cpc = "idle"
    /\ project = << >>
    /\ other_project = << >>
    /\ course_title = << >>
    /\ term = None
    /\ other_term = None
    /\ section = None
    /\ course_code = None
    /\ term_filename = None

Init ==
    /\ pc = "start"
    /\ instr_file = [kind |-> "none"]
    /\ df = EmptyDataFrame
    /\ messages = << >>
    /\ out = << >>
    /\ filename = None
    /\ CodecIdle

\* instr_file = st.file_uploader(...)
StFileUploader ==
    /\ pc = "start"
    /\ instr_file' \in Uploads
    /\ pc' = "uploaded"
    /\ UNCHANGED <<df, messages, out, filename>>
    /\ UNCHANGED codec_vars

\* df = load_excel(instr_file)
LoadExcel ==
    /\ pc = "uploaded"
    /\ LET res == load_excel(instr_file)
       IN  /\ messages' = messages \o res.shown
           /\ IF res.exc = "none"
              THEN df' = res.val /\ pc' = "loaded"
              ELSE df' = df /\ pc' = "raised"
    /\ UNCHANGED <<instr_file, out, filename>>
    /\ UNCHANGED codec_vars

\* if df.empty: st.info(...); return
PromptForUpload ==
    /\ pc = "loaded"
    /\ df_empty(df)
    /\ messages' = Append(messages, Element("info_upload", << >>))
    /\ pc' = "returned"
    /\ UNCHANGED <<instr_file, df, out, filename>>
    /\ UNCHANGED codec_vars

\* the column check when a required column is missing: st.error, st.stop
MissingColumnsStop ==
    /\ pc = "loaded"
    /\ ~df_empty(df)
    /\ missing_columns(df) # << >>
    /\ messages' = messages \o <<Element("expander_columns", df.columns),
                                 Element("error_missing", missing_columns(df))>>
    /\ pc' = "stopped"
    /\ UNCHANGED <<instr_file, df, out, filename>>
    /\ UNCHANGED codec_vars

\* the column check when nothing is missing
ColumnsValid ==
    /\ pc = "loaded"
    /\ ~df_empty(df)
    /\ missing_columns(df) = << >>
    /\ messages' = Append(messages, Element("expander_columns", df.columns))
    /\ pc' = "validated"
    /\ UNCHANGED <<instr_file, df, out, filename>>
    /\ UNCHANGED codec_vars

\* out = build_output_dataframe(df)
BuildOutput ==
    /\ pc = "validated"
    /\ LET res == build_output_dataframe(df)
       IN  IF res.exc = "none"
           THEN out' = res.val /\ pc' = "built"
           ELSE out' = out /\ pc' = "raised"
    /\ UNCHANGED <<instr_file, df, messages, filename>>
    /\ UNCHANGED codec_vars

\* st.header("Preview"); st.dataframe(out)
Preview ==
    /\ pc = "built"
    /\ messages' = messages \o <<Element("header_preview", << >>),
                                 Element("dataframe", out)>>
    /\ pc' = "previewed"
    /\ UNCHANGED <<instr_file, df, out, filename>>
    /\ UNCHANGED codec_vars

\* first_term = out["Term"].iloc[0]; derive_filename; st.download_button
Download ==
    /\ pc = "previewed"
    /\ IF Len(out) = 0
       THEN /\ pc' = "raised"
            /\ UNCHANGED <<messages, filename>>
       ELSE /\ filename' = Returned(derive_filename(out[1].Term))
            /\ messages' = Append(messages, Element("download_button", out))
            /\ pc' = "done"
    /\ UNCHANGED <<instr_file, df, out>>
    /\ UNCHANGED codec_vars

Next ==
    \/ StFileUploader
    \/ LoadExcel
    \/ PromptForUpload
    \/ MissingColumnsStop
    \/ ColumnsValid
    \/ BuildOutput
    \/ Preview
    \/ Download

Spec == Init /\ [][Next]_vars

(***************************************************************************)
(* Properties of the run of main(), checked under Spec                     *)
(***************************************************************************)
Kinds(ms) == {ms[i].kind : i \in 1..Len(ms)}

\* the required columns the uploaded file has under no header, padded or not
AbsentRequired ==
    IF instr_file.kind = "table"
    THEN {c \in Range(REQUIRED_BASE_COLS) :
              \A i \in 1..Len(instr_file.columns) : instr_file.columns[i].name # c}
    ELSE Range(REQUIRED_BASE_COLS)

\* C6: when required columns are absent from the uploaded table the error
\* lists every one of them in one message, and the run halts before
\* build_output_dataframe: no output table, no preview, no download.
C6_MissingColumnsReportedAndHalt ==
    /\ pc = "stopped" =>
          /\ AbsentRequired # {}
          /\ messages[Len(messages)].kind = "error_missing"
          /\ Range(messages[Len(messages)].data) = AbsentRequired
          /\ Len(messages[Len(messages)].data) = Cardinality(AbsentRequired)
          /\ Cardinality({i \in 1..Len(messages) : messages[i].kind = "error_missing"}) = 1
    /\ (instr_file.kind = "table" /\ AbsentRequired # {}) =>
          /\ pc \in {"uploaded", "loaded", "returned", "stopped"}
          /\ out = << >>
          /\ filename = None
          /\ Kinds(messages) \cap {"header_preview", "dataframe", "download_button"} = {}
    /\ (pc = "loaded" /\ ~df_empty(df) /\ AbsentRequired # {}) =>
          ENABLED MissingColumnsStop

C6_Witness ==
    /\ pc = "stopped"
    /\ Cardinality(AbsentRequired) >= 2
    /\ Len(instr_file.rows) >= 1
    /\ Len(messages[Len(messages)].data) >= 2

NoLowercase(s) == \A i \in 1..Len(s) : s[i] \notin Range(LowerLetters) \cup {"ß"}

\* C7: Course_Code of every output row, taken from 'Course Code' or derived
\* from 'Course Title', has at most 6 characters and no lowercase letter.
C7_CourseCodeSixUppercase ==
    pc \in {"built", "previewed", "done"} =>
        \A i \in 1..Len(out) :
            /\ Len(out[i].Course_Code) <= 6
            /\ NoLowercase(out[i].Course_Code)

\* an upload with nothing to do: no file, an unreadable file, a table of no rows
NothingUploaded ==
    \/ instr_file.kind \in {"none", "unreadable"}
    \/ instr_file.kind = "table" /\ instr_file.rows = << >>

\* C8: with no file, an unreadable file or a table of zero rows, load_excel
\* returns an empty table and lets no error escape, and main() stops at the
\* upload prompt: no column check, no output table, no download.
C8_EmptyInputIsNothingToDo ==
    (pc \notin {"start", "uploaded"} /\ NothingUploaded) =>
        /\ pc \in {"loaded", "returned"}
        /\ df_empty(df)
        /\ out = << >>
        /\ filename = None
        /\ Kinds(messages) \subseteq {"error_read", "info_upload"}
        /\ pc = "loaded" => ENABLED PromptForUpload
        /\ pc = "returned" => messages[Len(messages)].kind = "info_upload"

C8_Witness ==
    /\ pc = "returned"
    /\ instr_file.kind = "unreadable"
    /\ Kinds(messages) = {"error_read", "info_upload"}

\* C10: build_output_dataframe emits one output row per input row, in the
\* input order, so when main() reaches the download step the output has a
\* first row and the filename is derived from its Term.
C10_OneOutputRowPerInputRow ==
    /\ pc \in {"built", "previewed", "done"} =>
          /\ Len(out) = Len(df.rows)
          /\ Len(out) >= 1
          /\ \A i \in 1..Len(out) :
                /\ out[i].Response = df.rows[i]["Comments"]
                /\ out[i].Question = df.rows[i]["QuestionKey"]
                /\ Returned(out[i].Term)
                      = format_term(df.rows[i]["Project"], df.rows[i]["Course Title"])
    /\ pc = "done" =>
          /\ filename = Returned(derive_filename(out[1].Term))
          /\ messages[Len(messages)] = Element("download_button", out)
    /\ pc = "raised" => "dataframe" \notin Kinds(messages)

C10_Witness ==
    /\ pc = "done"
    /\ Len(out) = 2
    /\ out[1].Response # out[2].Response
    /\ filename.val # None.val

====
